---- MODULE Spec2Model ----
(***************************************************************************)
(* State-machine model of three pieces of the site's scripts:              *)
(*   - getImagesOptimized and its helpers (responsive image attributes),   *)
(*   - the three.js scene bootstrap script,                                *)
(*   - initAssetPreload (bounded-batch asset preloader),                   *)
(*   - fetchPosts and load of the blog utilities (the posts cache).        *)
(* Each piece has its own specification (SpecImg, SpecScene, SpecPreload,  *)
(* SpecBlog); the variables of the other pieces stay at their initial      *)
(* values.                                                                 *)
(*                                                                         *)
(* JavaScript values are tagged records: Undefined, Num (an exact rational *)
(* n/d, standing for a double), Str, Arr.  The input sets are chosen so    *)
(* that every quotient the code computes has a terminating decimal         *)
(* expansion, hence exact arithmetic and String(number) agree with the     *)
(* double arithmetic of the engine.                                        *)
(* A CSS string "a: b; c: d;" is kept as the sequence of its declarations  *)
(* <<"a: b;", "c: d;">> (joined by one space) plus the raw caller suffix.  *)
(***************************************************************************)
EXTENDS Integers, Sequences, FiniteSets, TLC

VARIABLES
    \* ---- getImagesOptimized (one call) ----
    pc,          \* "idle" | "awaitTransform" | "returned" | "rejected"
    args,        \* the arguments of the call: image, props, transform
    loc,         \* the locals at the await: width, height, sizes, aspectRatio, layout, breakpoints
    console,     \* the console.error messages, in order
    calls,       \* the invocations of the transform, in order
    tr,          \* the promise returned by the transform
    result,      \* the value the call resolved with, or the error it rejected with
    \* ---- scene bootstrap script ----
    scene,
    \* ---- initAssetPreload ----
    pre,
    \* ---- blog posts cache (fetchPosts) ----
    blog

imgVars == <<pc, args, loc, console, calls, tr, result>>
vars == <<pc, args, loc, console, calls, tr, result, scene, pre, blog>>

-----------------------------------------------------------------------------
(* JavaScript values *)

Undefined == [t |-> "undefined"]
Str(s) == [t |-> "string", s |-> s]
Arr(a) == [t |-> "array", a |-> a]

RECURSIVE GCD(_, _)
GCD(a, b) == IF b = 0 THEN a ELSE GCD(b, a % b)

\* the number n/d (d > 0), in lowest terms
Num(n, d) ==
    LET g == GCD(IF n < 0 THEN -n ELSE n, d)
    IN  [t |-> "number", n |-> n \div g, d |-> d \div g]

Whole(n) == Num(n, 1)
NumMul(a, b) == Num(a.n * b.n, a.d * b.d)
\* a / b for b # 0
NumDiv(a, b) == IF b.n < 0 THEN Num(-(a.n * b.d), a.d * (-b.n)) ELSE Num(a.n * b.d, a.d * b.n)
NumLt(a, b) == a.n * b.d < b.n * a.d
NumFloor(a) == Whole(a.n \div a.d)
IsInteger(v) == v.t = "number" /\ v.d = 1

\* ToBoolean
Truthy(v) ==
    CASE v.t = "undefined" -> FALSE
      [] v.t = "number" -> v.n # 0
      [] v.t = "string" -> v.s # ""
      [] OTHER -> TRUE

\* a || b
Or(a, b) == IF Truthy(a) THEN a ELSE b

\* the number of fraction digits String(number) is followed to
MaxFracDigits == 16

RECURSIVE FracDigits(_, _, _)
FracDigits(r, d, k) ==
    IF r = 0 \/ k = 0 THEN ""
    ELSE ToString((r * 10) \div d) \o FracDigits((r * 10) % d, d, k - 1)

\* String(v) of a non-negative number: `${v}`
NumToString(v) ==
    ToString(v.n \div v.d)
        \o (IF v.n % v.d = 0 THEN "" ELSE "." \o FracDigits(v.n % v.d, v.d, MaxFracDigits))

-----------------------------------------------------------------------------
(* Sequence helpers: Array.prototype.filter / map / join, new Set, sort *)

\* mutant of SeqFilterLt: the filter is left out
SeqFilterNone(a, bound) == a

RECURSIVE SeqFilterLt(_, _)
\* a.filter((w) => w < bound)
SeqFilterLt(a, bound) ==
    IF a = <<>> THEN <<>>
    ELSE (IF NumLt(Head(a), bound) THEN <<Head(a)>> ELSE <<>>) \o SeqFilterLt(Tail(a), bound)

Elems(a) == {a[i] : i \in 1..Len(a)}

RECURSIVE SetDedupe(_, _)
\* [...new Set(a)]: the first occurrence of each value, in order (seen = <<>> at the call)
SetDedupe(a, seen) ==
    IF a = <<>> THEN seen
    ELSE SetDedupe(Tail(a), IF Head(a) \in Elems(seen) THEN seen ELSE Append(seen, Head(a)))

RECURSIVE InsertAsc(_, _)
InsertAsc(x, s) ==
    IF s = <<>> THEN <<x>>
    ELSE IF NumLt(Head(s), x) \/ Head(s) = x THEN <<Head(s)>> \o InsertAsc(x, Tail(s))
    ELSE <<x>> \o s

RECURSIVE SortAsc(_)
\* a.sort((a, b) => a - b) (stable)
SortAsc(a) == IF a = <<>> THEN <<>> ELSE InsertAsc(a[Len(a)], SortAsc(SubSeq(a, 1, Len(a) - 1)))

RECURSIVE Join(_, _)
\* a.join(sep) of an array of strings
Join(a, sep) ==
    IF a = <<>> THEN ""
    ELSE IF Len(a) = 1 THEN a[1]
    ELSE a[1] \o sep \o Join(Tail(a), sep)

-----------------------------------------------------------------------------
(* config.deviceSizes *)

deviceSizes ==
    << Whole(640), Whole(750), Whole(828), Whole(960), Whole(1080), Whole(1280), Whole(1668), Whole(1920),
       Whole(2048), Whole(2560), Whole(3200), Whole(3840), Whole(4480), Whole(5120), Whole(6016) >>

computeHeight(width, aspectRatio) == NumFloor(NumDiv(width, aspectRatio))

(***************************************************************************)
(* parseAspectRatio.  A string argument is given by what the two parsers   *)
(* of the function see in it: form "ratio" when the pattern                *)
(* (\d+)\s*[/:]\s*(\d+) matches (num, den the two digit groups), form      *)
(* "float" when it does not and parseFloat yields v, form "nan" when       *)
(* neither does; s is the text itself.                                     *)
(***************************************************************************)
parseAspectRatio(aspectRatio) ==
    IF aspectRatio.t = "number" THEN aspectRatio
    ELSE IF aspectRatio.t = "string" THEN
        IF aspectRatio.form = "ratio" THEN
            (IF aspectRatio.den # 0 THEN Num(aspectRatio.num, aspectRatio.den) ELSE Undefined)
        ELSE IF aspectRatio.form = "float" THEN aspectRatio.v
        ELSE Undefined
    ELSE Undefined

getSizes(width, layout) ==
    IF ~Truthy(width) \/ ~Truthy(layout) THEN Undefined
    ELSE CASE layout.s = "constrained" ->
                Str("(min-width: " \o NumToString(width) \o "px) " \o NumToString(width) \o "px, 100vw")
           [] layout.s = "fixed" -> Str(NumToString(width) \o "px")
           [] layout.s = "fullWidth" -> Str("100vw")
           [] OTHER -> Undefined

pixelate(value) ==
    IF Truthy(value) \/ value = Whole(0) THEN Str(NumToString(value) \o "px") ELSE Undefined

\* Object.fromEntries(entries) then Object.entries: a key stays where it was first
\* inserted and holds the value written last
lastValue(entries, key) ==
    LET idx == {i \in 1..Len(entries) : entries[i][1] = key}
    IN  entries[CHOOSE i \in idx : \A j \in idx : j <= i][2]

RECURSIVE firstKeys(_, _)
firstKeys(entries, seen) ==
    IF entries = <<>> THEN seen
    ELSE firstKeys(Tail(entries),
                   IF Head(entries)[1] \in Elems(seen) THEN seen ELSE Append(seen, Head(entries)[1]))

\* mutant of fromEntries: the entries are serialized as pushed, duplicates kept
fromEntriesKeepAll(entries) == entries

fromEntries(entries) ==
    LET keys == firstKeys(entries, <<>>)
    IN  [i \in 1..Len(keys) |-> <<keys[i], lastValue(entries, keys[i])>>]

RECURSIVE filterTruthy(_)
\* entries.filter(([, value]) => value)
filterTruthy(entries) ==
    IF entries = <<>> THEN <<>>
    ELSE (IF Truthy(Head(entries)[2]) THEN <<Head(entries)>> ELSE <<>>) \o filterTruthy(Tail(entries))

\* aspectRatio ? `${aspectRatio}` : undefined
aspectRatioText(aspectRatio) ==
    IF Truthy(aspectRatio) THEN Str(NumToString(aspectRatio)) ELSE Undefined

\* the entries getStyle pushes, before the filter
styleEntries(width, height, aspectRatio, layout, objectFit, objectPosition, background) ==
    << <<"object-fit", objectFit>>, <<"object-position", objectPosition>> >>
    \o (IF background.t = "string" /\ background.isUrl
        THEN << <<"background-image", Str("url(" \o background.s \o ")")>>,
                <<"background-size", Str("cover")>>,
                <<"background-repeat", Str("no-repeat")>> >>
        ELSE << <<"background", background>> >>)
    \o (IF layout = Str("fixed")
        THEN << <<"width", pixelate(width)>>, <<"height", pixelate(height)>>,
                <<"object-position", Str("top left")>> >>
        ELSE <<>>)
    \o (IF layout = Str("constrained")
        THEN << <<"max-width", pixelate(width)>>, <<"max-height", pixelate(height)>>,
                <<"aspect-ratio", aspectRatioText(aspectRatio)>>, <<"width", Str("100%")>> >>
        ELSE <<>>)
    \o (IF layout = Str("fullWidth")
        THEN << <<"width", Str("100%")>>, <<"aspect-ratio", aspectRatioText(aspectRatio)>>,
                <<"height", pixelate(height)>> >>
        ELSE <<>>)
    \o (IF layout = Str("responsive")
        THEN << <<"width", Str("100%")>>, <<"height", Str("auto")>>,
                <<"aspect-ratio", aspectRatioText(aspectRatio)>> >>
        ELSE <<>>)
    \o (IF layout = Str("contained")
        THEN << <<"max-width", Str("100%")>>, <<"max-height", Str("100%")>>,
                <<"object-fit", Str("contain")>>,
                <<"aspect-ratio", aspectRatioText(aspectRatio)>> >>
        ELSE <<>>)
    \o (IF layout = Str("cover")
        THEN << <<"max-width", Str("100%")>>, <<"max-height", Str("100%")>> >>
        ELSE <<>>)

\* getStyle with its defaults objectFit = 'cover', objectPosition = 'center' and no
\* background, as getImagesOptimized calls it: the declarations `${key}: ${value};`
\* in order (the result string is their join by ' ')
getStyle(width, height, aspectRatio, layout) ==
    LET styles == fromEntries(filterTruthy(
                      styleEntries(width, height, aspectRatio, layout,
                                   Str("cover"), Str("center"), Undefined)))
    IN  [i \in 1..Len(styles) |-> styles[i][1] \o ": " \o styles[i][2].s \o ";"]

getBreakpoints(width, breakpoints, layout) ==
    IF layout \in {Str("fullWidth"), Str("cover"), Str("responsive"), Str("contained")}
    THEN Or(breakpoints, Arr(deviceSizes)).a
    ELSE IF ~Truthy(width) THEN <<>>
    ELSE LET doubleWidth == NumMul(width, Whole(2))
         IN  IF layout = Str("fixed") THEN <<width, doubleWidth>>
             ELSE IF layout = Str("constrained")
             THEN <<width, doubleWidth>> \o SeqFilterLt(Or(breakpoints, Arr(deviceSizes)).a, doubleWidth)
             ELSE <<>>

-----------------------------------------------------------------------------
(* Inputs of getImagesOptimized *)

\* the longest caller-supplied `widths` list
MaxWidthsLen == 2

\* an image given as a string: its text and what unpic's parseUrl sees in it
ImageString(s, cdn) == [t |-> "string", s |-> s, cdn |-> cdn]
\* an ImageMetadata object
ImageMetadata(src, w, h) == [t |-> "object", src |-> src, width |-> Whole(w), height |-> Whole(h)]

Images ==
    { ImageString("", Undefined),
      ImageString("/img/a.png", Undefined),
      ImageString("https://cdn.example.com/a.jpg", Str("imgix")),
      ImageMetadata("/_astro/hero.png", 4, 1) }

Layouts == {"fixed", "constrained", "fullWidth", "cover", "responsive", "contained"}
LayoutProps == {Undefined} \cup {Str(l) : l \in Layouts}
WidthProps == {Undefined, Whole(3), Whole(800)}
HeightProps == {Undefined, Whole(1), Whole(320)}
AspectRatioProps ==
    { Undefined,
      Whole(2),
      [t |-> "string", s |-> "1/2", form |-> "ratio", num |-> 1, den |-> 2],
      [t |-> "string", s |-> "3:0", form |-> "ratio", num |-> 3, den |-> 0],
      [t |-> "string", s |-> "abc", form |-> "nan"] }
CandidateWidths == {Whole(640), Whole(1600)}
WidthsProps ==
    {Undefined} \cup {Arr(a) : a \in UNION {[1..n -> CandidateWidths] : n \in 0..MaxWidthsLen}}
SizesProps == {Undefined, Str("50vw")}
StyleProps == {Undefined, Str("border: 0;")}
Transforms == {"default", "astroAsseetsOptimizer", "unpicOptimizer"}

Props ==
    [width : WidthProps, height : HeightProps, sizes : SizesProps,
     aspectRatio : AspectRatioProps, widths : WidthsProps, layout : LayoutProps,
     style : StyleProps]

-----------------------------------------------------------------------------
(* getImagesOptimized *)

\* layout = 'constrained' (the default of the destructuring)
defaultLayout(layout) == IF layout = Undefined THEN Str("constrained") ELSE layout

\* width ||= Number(image.width) || undefined, for an image that is not a string
intrinsicWidth(image, width) ==
    IF image.t # "string" THEN Or(width, Or(image.width, Undefined)) ELSE width

\* height ||= typeof width === 'number' ? computeHeight(width, image.width / image.height) : undefined
intrinsicHeight(image, width, height) ==
    IF image.t # "string"
    THEN Or(height, IF width.t = "number"
                    THEN computeHeight(width, NumDiv(image.width, image.height))
                    ELSE Undefined)
    ELSE height

\* (v && Number(v)) || undefined
toNumberOrUndefined(v) == IF Truthy(v) THEN v ELSE Undefined

ErrAspectRatio == "When aspectRatio is set, either width or height must also be set"
ErrDimensions == "Either aspectRatio or both width and height must be set"

\* mutant of calculateDimensions: the diagnostics do not exempt layout 'fullWidth'
calculateDimensionsNoExempt(width, height, aspectRatio, layout) ==
    LET same == [width |-> width, height |-> height, aspectRatio |-> aspectRatio, errors |-> <<>>]
    IN  IF Truthy(aspectRatio) THEN
            IF Truthy(width) THEN
                IF Truthy(height) THEN same
                ELSE [same EXCEPT !.height = NumDiv(width, aspectRatio)]
            ELSE IF Truthy(height) THEN [same EXCEPT !.width = NumMul(height, aspectRatio)]
            ELSE [same EXCEPT !.errors = <<ErrAspectRatio, "Image">>]
        ELSE IF Truthy(width) /\ Truthy(height) THEN [same EXCEPT !.aspectRatio = NumDiv(width, height)]
        ELSE [same EXCEPT !.errors = <<ErrDimensions, "Image">>]

\* "Calculate dimensions from aspect ratio": the if/else chain on aspectRatio, width, height
calculateDimensions(width, height, aspectRatio, layout) ==
    LET same == [width |-> width, height |-> height, aspectRatio |-> aspectRatio, errors |-> <<>>]
    IN  IF Truthy(aspectRatio) THEN
            IF Truthy(width) THEN
                IF Truthy(height) THEN same
                ELSE [same EXCEPT !.height = NumDiv(width, aspectRatio)]
            ELSE IF Truthy(height) THEN [same EXCEPT !.width = NumMul(height, aspectRatio)]
            ELSE IF layout # Str("fullWidth") THEN [same EXCEPT !.errors = <<ErrAspectRatio, "Image">>]
            ELSE same
        ELSE IF Truthy(width) /\ Truthy(height) THEN [same EXCEPT !.aspectRatio = NumDiv(width, height)]
        ELSE IF layout # Str("fullWidth") THEN [same EXCEPT !.errors = <<ErrDimensions, "Image">>]
        ELSE same

\* the locals of getImagesOptimized when it calls the transform
locals(image, props) ==
    LET layout == defaultLayout(props.layout)
        width0 == intrinsicWidth(image, props.width)
        height0 == intrinsicHeight(image, width0, props.height)
        width1 == toNumberOrUndefined(width0)
        height1 == toNumberOrUndefined(height0)
        widths == Or(props.widths, Arr(deviceSizes))
        sizes == Or(props.sizes, getSizes(Or(width1, Undefined), layout))
        dims == calculateDimensions(width1, height1, parseAspectRatio(props.aspectRatio), layout)
    IN  [ width |-> dims.width, height |-> dims.height, aspectRatio |-> dims.aspectRatio,
          errors |-> dims.errors, sizes |-> sizes, layout |-> layout,
          breakpoints |-> SortAsc(SetDedupe(getBreakpoints(dims.width, widths, layout), <<>>)) ]

\* the src of an image: typeof image === 'string' ? image : image.src
srcOf(image) == IF image.t = "string" THEN image.s ELSE image.src

\* (await getImage({src: image, width: w, inferSize: true})).src, of astro:assets
getImageSrc(image, w) == "/_image?href=" \o srcOf(image) \o "&w=" \o NumToString(w)

\* transformUrl({url, width, height, cdn}) of unpic
transformUrl(image, w, h) ==
    image.s \o "?w=" \o NumToString(w) \o (IF Truthy(h) THEN "&h=" \o NumToString(h) ELSE "")

Fulfilled(value) == [state |-> "fulfilled", settled |-> 0, value |-> value, reason |-> ""]
Pending == [state |-> "pending", settled |-> 0, value |-> <<>>, reason |-> ""]
Rejected(settled, reason) == [state |-> "rejected", settled |-> settled, value |-> <<>>, reason |-> reason]

\* the list astroAsseetsOptimizer resolves with once every getImage has resolved
astroEntries(image, breakpoints) ==
    [i \in 1..Len(breakpoints) |-> [src |-> getImageSrc(image, breakpoints[i]), width |-> breakpoints[i]]]

\* astroAsseetsOptimizer up to its first suspension: the promise it returns
astroAsseetsOptimizer(image, breakpoints, width, height) ==
    IF ~Truthy(image) THEN Fulfilled(<<>>)
    ELSE IF breakpoints = <<>> THEN Fulfilled(<<>>)
    ELSE Pending

\* unpicOptimizer: nothing in it suspends, so the promise it returns is settled
unpicOptimizer(image, breakpoints, width, height) ==
    IF ~Truthy(image) \/ image.t # "string" THEN Fulfilled(<<>>)
    ELSE IF ~Truthy(image.cdn) THEN Fulfilled(<<>>)
    ELSE Fulfilled([i \in 1..Len(breakpoints) |->
            [src |-> transformUrl(image, breakpoints[i],
                                  IF Truthy(width) /\ Truthy(height)
                                  THEN computeHeight(breakpoints[i], NumDiv(width, height))
                                  ELSE height),
             width |-> breakpoints[i]]])

\* transform(image, breakpoints, Number(width) || undefined, Number(height) || undefined)
callTransform(transform, image, breakpoints, width, height) ==
    CASE transform = "astroAsseetsOptimizer" -> astroAsseetsOptimizer(image, breakpoints, width, height)
      [] transform = "unpicOptimizer" -> unpicOptimizer(image, breakpoints, width, height)
      [] OTHER -> Fulfilled(<<>>)

\* (await transform(...)).map(({src, width}) => `${src} ${width}w`).join(', ')
srcsetOf(entries) ==
    Join([i \in 1..Len(entries) |-> entries[i].src \o " " \o NumToString(entries[i].width) \o "w"], ", ")

\* mutant of returnValue: srcset without `|| undefined`
returnValueEmptySrcset(image, props, l, entries) ==
    [ src |-> srcOf(image),
      attributes |->
        [ width |-> l.width,
          height |-> l.height,
          srcset |-> Str(srcsetOf(entries)),
          sizes |-> l.sizes,
          style |-> [ decls |-> getStyle(l.width, l.height, l.aspectRatio, l.layout),
                      raw |-> IF props.style = Undefined THEN "" ELSE props.style.s ] ] ]

\* the object getImagesOptimized returns
returnValue(image, props, l, entries) ==
    [ src |-> srcOf(image),
      attributes |->
        [ width |-> l.width,
          height |-> l.height,
          srcset |-> Or(Str(srcsetOf(entries)), Undefined),
          sizes |-> l.sizes,
          style |-> [ decls |-> getStyle(l.width, l.height, l.aspectRatio, l.layout),
                      raw |-> IF props.style = Undefined THEN "" ELSE props.style.s ] ] ]

NoArgs == [image |-> Undefined, props |-> Undefined, transform |-> ""]
NoLocals == Undefined
NoResult == Undefined

\* getImagesOptimized(image, props, transform) up to `await transform(...)`
GetImagesOptimized(image, props, transform) ==
    /\ pc = "idle"
    /\ LET l == locals(image, props)
       IN  /\ loc' = l
           /\ console' = console \o l.errors
           /\ calls' = Append(calls, [image |-> image, breakpoints |-> l.breakpoints,
                                      width |-> Or(l.width, Undefined),
                                      height |-> Or(l.height, Undefined)])
           /\ tr' = callTransform(transform, image, l.breakpoints,
                                  Or(l.width, Undefined), Or(l.height, Undefined))
    /\ args' = [image |-> image, props |-> props, transform |-> transform]
    /\ pc' = "awaitTransform"
    /\ UNCHANGED <<result, scene, pre, blog>>

\* one getImage call of astroAsseetsOptimizer resolves; the last one fulfils Promise.all
GetImageResolves ==
    /\ pc = "awaitTransform"
    /\ tr.state = "pending"
    /\ LET n == tr.settled + 1
           bps == calls[Len(calls)].breakpoints
       IN  tr' = IF n = Len(bps)
                 THEN [Fulfilled(astroEntries(args.image, bps)) EXCEPT !.settled = n]
                 ELSE [tr EXCEPT !.settled = n]
    /\ UNCHANGED <<pc, args, loc, console, calls, result, scene, pre, blog>>

\* one getImage call of astroAsseetsOptimizer rejects: Promise.all rejects with its reason
GetImageRejects ==
    /\ pc = "awaitTransform"
    /\ tr.state = "pending"
    /\ tr' = Rejected(tr.settled, "getImage failed")
    /\ UNCHANGED <<pc, args, loc, console, calls, result, scene, pre, blog>>

\* mutant of Resume: a rejected transform is caught and the srcset left out
ResumeSwallowing ==
    /\ pc = "awaitTransform"
    /\ tr.state # "pending"
    /\ pc' = "returned"
    /\ result' = returnValue(args.image, args.props, loc, tr.value)
    /\ UNCHANGED <<args, loc, console, calls, tr, scene, pre, blog>>

\* the continuation of getImagesOptimized after `await transform(...)`
Resume ==
    /\ pc = "awaitTransform"
    /\ tr.state # "pending"
    /\ IF tr.state = "fulfilled"
       THEN /\ pc' = "returned"
            /\ result' = returnValue(args.image, args.props, loc, tr.value)
       ELSE /\ pc' = "rejected"
            /\ result' = [error |-> tr.reason]
    /\ UNCHANGED <<args, loc, console, calls, tr, scene, pre, blog>>

\* the values of the other pieces' variables while they do not run
SceneIdle == Undefined
PreIdle == Undefined
BlogIdle == Undefined

InitImg ==
    /\ pc = "idle"
    /\ args = NoArgs
    /\ loc = NoLocals
    /\ console = <<>>
    /\ calls = <<>>
    /\ tr = Fulfilled(<<>>)
    /\ result = NoResult
    /\ scene = SceneIdle
    /\ pre = PreIdle
    /\ blog = BlogIdle

NextImg ==
    \/ /\ pc = "idle"
       /\ \E image \in Images, props \in Props, transform \in Transforms :
             GetImagesOptimized(image, props, transform)
    \/ GetImageResolves
    \/ GetImageRejects
    \/ Resume

SpecImg == InitImg /\ [][NextImg]_vars

-----------------------------------------------------------------------------
(* Claims about getImagesOptimized (checked under SpecImg) *)

\* the breakpoint sequence handed to the transform by the call
PassedBreakpoints == calls[Len(calls)].breakpoints

StrictlyAscending(a) == \A i \in 1..(Len(a) - 1) : NumLt(a[i], a[i + 1])

\* the declarations of `prop` in a style, for the values the code can write for it
DeclsOf(style, prop, values) ==
    {i \in 1..Len(style.decls) : style.decls[i] \in {prop \o ": " \o v \o ";" : v \in values}}

(* C1: layout 'fixed' with a supplied width W and a resolved height H: the transform
   gets exactly [W, 2W]; sizes (when the caller gives none) is "Wpx"; the style holds
   'width: Wpx;' and 'height: Hpx;' and exactly one object-position declaration,
   whose value is 'top left'. *)
C1_FixedLayout ==
    (/\ pc # "idle"
     /\ args.props.layout = Str("fixed")
     /\ Truthy(args.props.width)
     /\ Truthy(loc.height))
    => LET W == args.props.width
           H == loc.height
       IN  /\ PassedBreakpoints = <<W, NumMul(W, Whole(2))>>
           /\ pc = "returned" =>
                LET a == result.attributes
                IN  /\ a.width = W
                    /\ ~Truthy(args.props.sizes) => a.sizes = Str(NumToString(W) \o "px")
                    /\ ("width: " \o NumToString(W) \o "px;") \in Elems(a.style.decls)
                    /\ ("height: " \o NumToString(H) \o "px;") \in Elems(a.style.decls)
                    /\ Cardinality(DeclsOf(a.style, "object-position", {"center", "top left"})) = 1
                    /\ DeclsOf(a.style, "object-position", {"top left"}) # {}

C1_Witness ==
    /\ pc = "returned"
    /\ args.props.layout = Str("fixed")
    /\ args.props.width = Whole(800)
    /\ args.props.sizes = Undefined
    /\ loc.height = Whole(320)
    /\ result.attributes.sizes = Str("800px")

(* C2: layout 'constrained' (also by default) with width W: the transform gets the
   strictly ascending sequence whose elements are W, 2W and the candidates (the
   caller's, or the device table when there are none) that are < 2W. *)
C2_ConstrainedLayout ==
    (/\ pc # "idle"
     /\ loc.layout = Str("constrained")
     /\ Truthy(loc.width))
    => LET W == loc.width
           W2 == NumMul(W, Whole(2))
           candidates == IF Truthy(args.props.widths) THEN args.props.widths.a ELSE deviceSizes
       IN  /\ StrictlyAscending(PassedBreakpoints)
           /\ Elems(PassedBreakpoints)
                = {W, W2} \cup {c \in Elems(candidates) : NumLt(c, W2)}
           /\ \A c \in Elems(candidates) : ~NumLt(c, W2) /\ c # W2 => c \notin Elems(PassedBreakpoints)

C2_Witness ==
    /\ pc # "idle"
    /\ loc.layout = Str("constrained")
    /\ args.props.widths = Arr(<<Whole(1600), Whole(640)>>)
    /\ PassedBreakpoints = <<Whole(640), Whole(800), Whole(1600)>>

(* C3: the breakpoint sequence handed to the transform is strictly ascending (hence
   deduplicated) and holds only positive integers, whatever the layout and the
   width, height, aspectRatio and widths given. *)
C3_BreakpointsPositiveIntegers ==
    pc # "idle"
    => /\ StrictlyAscending(PassedBreakpoints)
       /\ \A w \in Elems(PassedBreakpoints) : IsInteger(w) /\ w.n > 0

(* C4: when the caller gives no sizes, attributes.sizes is getSizes of the width
   returned in attributes and the layout. *)
C4_SizesOfFinalWidth ==
    (pc = "returned" /\ ~Truthy(args.props.sizes))
    => result.attributes.sizes = getSizes(result.attributes.width, loc.layout)

(* C5: when width, height and aspectRatio are all given, the width and height
   returned are the given ones and the aspect-ratio declaration of the style (for
   the layouts that have one) is width / height. *)
C5_DimensionsWin ==
    (/\ pc = "returned"
     /\ Truthy(args.props.width)
     /\ Truthy(args.props.height)
     /\ Truthy(parseAspectRatio(args.props.aspectRatio)))
    => /\ result.attributes.width = args.props.width
       /\ result.attributes.height = args.props.height
       /\ loc.layout \in {Str("constrained"), Str("fullWidth"), Str("responsive"), Str("contained")}
            => ("aspect-ratio: " \o NumToString(NumDiv(args.props.width, args.props.height)) \o ";")
                  \in Elems(result.attributes.style.decls)

\* the sizing information is missing after the normalization
SizingMissing ==
    /\ ~(Truthy(loc.width) /\ Truthy(loc.height))
    /\ ~(Truthy(loc.aspectRatio) /\ (Truthy(loc.width) \/ Truthy(loc.height)))

(* C6: a diagnostic is logged exactly when the layout is not 'fullWidth' and the
   sizing information is missing after the normalization; the call then still calls
   the transform and returns a result when the transform resolves: only a rejected
   transform makes it fail. *)
C6_SoftViolation ==
    pc # "idle"
    => /\ (console # <<>>) <=> (loc.layout # Str("fullWidth") /\ SizingMissing)
       /\ Len(calls) = 1
       /\ pc = "rejected" => tr.state = "rejected"
       /\ pc = "returned" => "attributes" \in DOMAIN result

C6_Witness ==
    /\ pc = "returned"
    /\ console # <<>>
    /\ ~Truthy(result.attributes.width)

RECURSIVE C7_Srcset(_)
\* "{url} {width}w" entries joined by ", ", built from the last entry backwards
C7_Srcset(entries) ==
    IF entries = <<>> THEN ""
    ELSE LET n == Len(entries)
             last == entries[n].src \o " " \o NumToString(entries[n].width) \o "w"
         IN  IF n = 1 THEN last ELSE C7_Srcset(SubSeq(entries, 1, n - 1)) \o ", " \o last

(* C7: the transform is invoked once, with the final (strictly ascending) breakpoint
   sequence; srcset is the transform's entries "{url} {width}w" in its order, joined
   by ", ", and is undefined, never "", when the transform gave no entry. *)
C7_SrcsetFromTransform ==
    /\ Len(calls) <= 1
    /\ pc # "idle" => Len(calls) = 1 /\ StrictlyAscending(PassedBreakpoints)
    /\ pc = "returned" =>
         /\ result.attributes.srcset # Str("")
         /\ tr.value = <<>> => result.attributes.srcset = Undefined
         /\ tr.value # <<>> => result.attributes.srcset = Str(C7_Srcset(tr.value))

C7_Witness ==
    /\ pc = "returned"
    /\ Len(tr.value) >= 2
    /\ Truthy(result.attributes.srcset)

(* C8: when one getImage of the transform rejects, the transform's promise rejects
   and getImagesOptimized rejects with that reason: it returns no {src, attributes},
   and the transform is not invoked again. *)
C8_TransformFailurePropagates ==
    /\ tr.state = "rejected" =>
         /\ pc \in {"awaitTransform", "rejected"}
         /\ Len(calls) = 1
         /\ "attributes" \notin DOMAIN result
    /\ pc = "rejected" => tr.state = "rejected" /\ result = [error |-> tr.reason]
    /\ pc = "returned" => tr.state = "fulfilled"

C8_Witness ==
    /\ pc = "rejected"
    /\ tr.settled >= 1
    /\ result = [error |-> "getImage failed"]

-----------------------------------------------------------------------------
(* The scene bootstrap script.                                             *)
(* scene.phase is "load" until the module's top-level code has run.        *)
(* scene.scenes is every scene createScene returned, in order: who created *)
(* it (by) and whether cleanup() was called on it; init() is called on a   *)
(* scene in the statement after its creation.  scene.signals counts the    *)
(* user engagement events that have occurred.                              *)

\* the engagement events and navigations a run is followed for
MaxSignals == 3
MaxNavigations == 3

EngagementSignals == {"scroll", "click", "mousemove", "touchstart"}

\* sceneManager[CANVAS_ID] = createScene(CANVAS_ID, isDevelopment); sceneManager[CANVAS_ID].init()
createAndInit(sc, by) ==
    [sc EXCEPT !.scenes = Append(@, [by |-> by, cleaned |-> FALSE]),
               !.sceneManager = Len(sc.scenes) + 1]

initThreeJS(sc, by) ==
    IF ~sc.isInitialized
    THEN LET sc1 == [sc EXCEPT !.isInitialized = TRUE, !.localStorage = TRUE]
         IN  IF sc1.sceneManager = 0 THEN createAndInit(sc1, by) ELSE sc1
    ELSE sc

\* init = () => { initThreeJS(); }
init(sc, by) == initThreeJS(sc, by)

\* mutant of RunScript: init() is called whatever the stored flag is
RunScriptEager ==
    /\ scene.phase = "load"
    /\ scene' = init([scene EXCEPT !.phase = "running",
                                   !.isThreeJSCached = scene.localStorage], "cached")
    /\ UNCHANGED <<imgVars, pre, blog>>

\* the module's top-level code
RunScript ==
    /\ scene.phase = "load"
    /\ LET sc == [scene EXCEPT !.phase = "running",
                               !.isThreeJSCached = scene.localStorage]
       IN  scene' = IF sc.isThreeJSCached
                    THEN init(sc, "cached")
                    ELSE [sc EXCEPT !.listeners = EngagementSignals, !.timer = "pending"]
    /\ UNCHANGED <<imgVars, pre, blog>>

\* the user scrolls, clicks, moves the mouse or touches: a {once: true} listener
\* of the event, when there is one, runs init and is removed
Engagement(e) ==
    /\ scene.signals < MaxSignals
    /\ LET sc == [scene EXCEPT !.signals = @ + 1]
       IN  scene' = IF e \in sc.listeners
                    THEN init([sc EXCEPT !.listeners = @ \ {e}], e)
                    ELSE sc
    /\ UNCHANGED <<imgVars, pre, blog>>

\* setTimeout(() => { init(); }, 3000)
TimerFires ==
    /\ scene.timer = "pending"
    /\ scene' = init([scene EXCEPT !.timer = "fired"], "timer")
    /\ UNCHANGED <<imgVars, pre, blog>>

\* mutant of BeforeSwap: sceneManager is reset without cleanup() of the scene it holds
BeforeSwapNoCleanup ==
    /\ scene.phase = "running"
    /\ scene.navigations < MaxNavigations
    /\ scene' = [scene EXCEPT !.navigations = @ + 1, !.sceneManager = 0]
    /\ UNCHANGED <<imgVars, pre, blog>>

\* astro:before-swap
BeforeSwap ==
    /\ scene.phase = "running"
    /\ scene.navigations < MaxNavigations
    /\ scene' = [scene EXCEPT
                    !.navigations = @ + 1,
                    !.scenes = [i \in 1..Len(@) |->
                                   IF i = scene.sceneManager THEN [@[i] EXCEPT !.cleaned = TRUE] ELSE @[i]],
                    !.sceneManager = 0]
    /\ UNCHANGED <<imgVars, pre, blog>>

\* astro:page-load
PageLoad ==
    /\ scene.phase = "running"
    /\ scene.navigations < MaxNavigations
    /\ LET sc == [scene EXCEPT !.navigations = @ + 1]
       IN  scene' = IF sc.sceneManager = 0 /\ sc.isInitialized
                    THEN createAndInit(sc, "page-load")
                    ELSE sc
    /\ UNCHANGED <<imgVars, pre, blog>>

InitScene ==
    /\ \E stored \in BOOLEAN :
          scene = [ phase |-> "load", localStorage |-> stored, isThreeJSCached |-> FALSE,
                    isInitialized |-> FALSE, sceneManager |-> 0, scenes |-> <<>>,
                    listeners |-> {}, timer |-> "none", signals |-> 0, navigations |-> 0 ]
    /\ pc = "idle"
    /\ args = NoArgs
    /\ loc = NoLocals
    /\ console = <<>>
    /\ calls = <<>>
    /\ tr = Fulfilled(<<>>)
    /\ result = NoResult
    /\ pre = PreIdle
    /\ blog = BlogIdle

NextScene ==
    \/ RunScript
    \/ \E e \in EngagementSignals : Engagement(e)
    \/ TimerFires
    \/ BeforeSwap
    \/ PageLoad

SpecScene == InitScene /\ [][NextScene]_vars

(* C9 as stated: no scene is created before the first user engagement signal. *)
C9_NoSceneBeforeEngagement ==
    scene.scenes # <<>> => scene.signals > 0

(* C9, amended: a scene is created only when the stored flag threejs_initialized was
   'true' at the start of the script, or after a listened engagement signal or the
   3-second timer ran init; until then createScene is not called, and it is never
   called before the script has run. *)
C9_LazyBootstrap ==
    /\ scene.scenes # <<>> =>
         /\ scene.phase = "running"
         /\ scene.isInitialized
         /\ scene.scenes[1].by \in EngagementSignals \cup {"timer", "cached"}
         /\ scene.scenes[1].by = "cached" <=> scene.isThreeJSCached
         /\ scene.scenes[1].by = "timer" => scene.timer = "fired"
         /\ scene.scenes[1].by \in EngagementSignals =>
               scene.signals > 0 /\ scene.scenes[1].by \notin scene.listeners
    /\ (scene.phase = "running" /\ ~scene.isThreeJSCached
            /\ scene.timer = "pending" /\ scene.listeners = EngagementSignals)
         => scene.scenes = <<>> /\ ~scene.isInitialized

C9_Witness ==
    /\ ~scene.isThreeJSCached
    /\ scene.scenes # <<>>
    /\ scene.scenes[1].by = "click"
    /\ scene.timer = "pending"

\* the scenes that have been init()-ed and not cleanup()-ed
LiveScenes == {i \in 1..Len(scene.scenes) : ~scene.scenes[i].cleaned}

(* C12: under every interleaving of the engagement events, the 3-second timer,
   astro:before-swap and astro:page-load, at most one scene that was init()-ed and not
   yet cleanup()-ed exists, and it is the one sceneManager holds; initThreeJS creates
   a scene at most once; a scene is created only after the one before it got
   cleanup(); astro:page-load creates a scene only when bootstrapping has happened
   (isInitialized) and, hence, never the first one. *)
C12_AtMostOneLiveScene ==
    /\ Cardinality(LiveScenes) <= 1
    /\ LiveScenes = (IF scene.sceneManager = 0 THEN {} ELSE {scene.sceneManager})
    /\ Cardinality({i \in 1..Len(scene.scenes) : scene.scenes[i].by # "page-load"}) <= 1
    /\ \A i \in 2..Len(scene.scenes) : scene.scenes[i - 1].cleaned
    /\ \A i \in 1..Len(scene.scenes) :
          scene.scenes[i].by = "page-load" => scene.isInitialized /\ i > 1
    /\ scene.scenes # <<>> => scene.isInitialized

C12_Witness ==
    /\ Len(scene.scenes) = 2
    /\ scene.scenes[1].by = "scroll"
    /\ scene.scenes[1].cleaned
    /\ scene.scenes[2].by = "page-load"
    /\ scene.sceneManager = 2
    /\ scene.timer = "fired"
    /\ scene.signals = MaxSignals

-----------------------------------------------------------------------------
(* initAssetPreload: one preloader, one preloadAssets call and any number  *)
(* of direct preloadAsset calls.                                           *)
(* pre.loadedAssets[u] is the status of u's entry in the loadedAssets map  *)
(* ("absent" when the map has no entry); a loader exists for u exactly     *)
(* while it is "loading".  pre.started[u] says which call created u's      *)
(* loader and, for preloadAssets, in which chunk.  pre.call is the         *)
(* preloadAssets call: its arguments, its loop index i, the promises of    *)
(* the chunk it awaits and its results.                                    *)
(* Promise reactions run before the next event: a loader event or a new    *)
(* call happens only when no continuation is ready.                        *)

\* the longest url list given to preloadAssets
MaxUrlsLen == 4

\* { concurrent = 3 } = {}
DefaultConcurrent == 3

Url(path, ext) == [path |-> path, ext |-> ext]
UrlOrder == <<Url("/posts/a", "webp"), Url("/posts/b", "png"), Url("/posts/c", "mp4"), Url("/posts/d", "webp")>>
Urls == Elems(UrlOrder)
urlText(u) == u.path \o "." \o u.ext

\* url.split('.').pop().toLowerCase()
fileExtension(u) == u.ext

\* the reason createLoader rejects with
loaderError(u, type) ==
    IF type = "mp4" THEN "Failed to load video: " \o urlText(u) ELSE "Failed to load image: " \o urlText(u)

\* the lists given to preloadAssets: every list up to renaming of the urls (the urls
\* first occur in the order of UrlOrder)
FirstOccurrencesInOrder(l) ==
    \A i \in 1..Len(l) :
        \E k \in 1..Len(UrlOrder) :
            /\ l[i] = UrlOrder[k]
            /\ \A j \in 1..(k - 1) : \E h \in 1..(i - 1) : l[h] = UrlOrder[j]
UrlLists ==
    {l \in UNION {[1..n -> Urls] : n \in 0..MaxUrlsLen} : FirstOccurrencesInOrder(l)}
ConcurrentOptions == {Undefined, Whole(1), Whole(2)}

PendingOn(u) == [url |-> u, state |-> "pending", value |-> Undefined]
FulfilledWith(u, v) == [url |-> u, state |-> "fulfilled", value |-> v]

\* preloadAsset(url).then(...).catch(...) of preloadAssets, once preloadAsset's
\* promise has settled: fulfilled with result, or rejected with error
chunkPromise(u, settled, value) ==
    IF settled = "fulfilled"
    THEN FulfilledWith(u, [status |-> "success", url |-> urlText(u), result |-> value])
    ELSE FulfilledWith(u, [status |-> "error", url |-> urlText(u), error |-> value])

\* preloadAsset(url) called by `who`: the preloader after the call
preloadAssetState(p, u, who) ==
    IF p.loadedAssets[u] # "absent" THEN p
    ELSE [p EXCEPT !.loadedAssets[u] = "loading", !.started[u] = who]

\* the promise preloadAssets holds for url u of a chunk, right after preloadAsset(u):
\* a cache hit resolves with the map's entry (an object, given by its status at the
\* time of the call), a new loader is awaited
preloadAssetPromise(p, u) ==
    IF p.loadedAssets[u] # "absent"
    THEN chunkPromise(u, "fulfilled", [t |-> "object", status |-> p.loadedAssets[u]])
    ELSE PendingOn(u)

\* mutant of chunkOf: urls.slice(i)
chunkOfRest(urls, i, concurrent) == SubSeq(urls, i + 1, Len(urls))

\* urls.slice(i, i + concurrent)
chunkOf(urls, i, concurrent) ==
    SubSeq(urls, i + 1, IF i + concurrent < Len(urls) THEN i + concurrent ELSE Len(urls))

RECURSIVE mapPreloadAsset(_, _, _)
\* chunk.map((url) => preloadAsset(url)...): the preloader and the promises after it
mapPreloadAsset(p, chunk, who) ==
    IF chunk = <<>> THEN [p |-> p, promises |-> <<>>]
    ELSE LET u == Head(chunk)
             rest == mapPreloadAsset(preloadAssetState(p, u, who), Tail(chunk), who)
         IN  [p |-> rest.p, promises |-> <<preloadAssetPromise(p, u)>> \o rest.promises]

\* the for loop of preloadAssets from its test `i < urls.length` on, up to the await
\* of the chunk's promises or the return
loopFrom(p, i) ==
    IF i < Len(p.call.urls)
    THEN LET m == mapPreloadAsset(p, chunkOf(p.call.urls, i, p.call.concurrent),
                                  [by |-> "preloadAssets", chunk |-> i \div p.call.concurrent])
         IN  [m.p EXCEPT !.call.i = i, !.call.promises = m.promises, !.call.state = "awaiting"]
    ELSE [p EXCEPT !.call.i = i, !.call.promises = <<>>, !.call.state = "returned"]

\* the await of Promise.all(chunkPromises) can continue
ContinuationReady ==
    /\ pre.call.state = "awaiting"
    /\ \/ \A k \in 1..Len(pre.call.promises) : pre.call.promises[k].state = "fulfilled"
       \/ \E k \in 1..Len(pre.call.promises) : pre.call.promises[k].state = "rejected"

\* preloadAssets(urls, options), up to its first await
PreloadAssets(urls, concurrent) ==
    /\ pre.call.state = "none"
    /\ pre' = loopFrom([pre EXCEPT !.call.urls = urls,
                                   !.call.concurrent =
                                        IF concurrent = Undefined THEN DefaultConcurrent ELSE concurrent.n],
                       0)
    /\ UNCHANGED <<imgVars, scene, blog>>

\* preloadAssets after `await Promise.all(chunkPromises)`: results.push, i += concurrent,
\* and the loop again
ChunkResumes ==
    /\ ContinuationReady
    /\ IF \E k \in 1..Len(pre.call.promises) : pre.call.promises[k].state = "rejected"
       THEN pre' = [pre EXCEPT !.call.state = "rejected"]
       ELSE pre' = loopFrom(
                [pre EXCEPT !.call.results =
                    @ \o [k \in 1..Len(pre.call.promises) |-> pre.call.promises[k].value]],
                pre.call.i + pre.call.concurrent)
    /\ UNCHANGED <<imgVars, scene, blog>>

\* a direct call preloadAsset(url)
PreloadAsset(u) ==
    /\ ~ContinuationReady
    /\ pre' = preloadAssetState(pre, u, [by |-> "preloadAsset", chunk |-> 0])
    /\ UNCHANGED <<imgVars, scene, blog>>

\* the promises of the awaited chunk after u's loader settled
settlePromises(promises, u, settled, value) ==
    [k \in 1..Len(promises) |->
        IF promises[k].state = "pending" /\ promises[k].url = u
        THEN chunkPromise(u, settled, value)
        ELSE promises[k]]

\* img.onload / video.onloadeddata of u's loader: resolve(url)
LoaderResolves(u) ==
    /\ ~ContinuationReady
    /\ pre.loadedAssets[u] = "loading"
    /\ pre' = [pre EXCEPT !.loadedAssets[u] = "loaded",
                          !.call.promises = settlePromises(@, u, "fulfilled", Str(urlText(u)))]
    /\ UNCHANGED <<imgVars, scene, blog>>

\* img.onerror / video.onerror of u's loader: reject(`Failed to load ...`)
LoaderRejects(u) ==
    /\ ~ContinuationReady
    /\ pre.loadedAssets[u] = "loading"
    /\ pre' = [pre EXCEPT !.loadedAssets[u] = "error",
                          !.call.promises = settlePromises(@, u, "rejected", loaderError(u, fileExtension(u)))]
    /\ UNCHANGED <<imgVars, scene, blog>>

InitPreload ==
    /\ pre = [ loadedAssets |-> [u \in Urls |-> "absent"],
               started |-> [u \in Urls |-> [by |-> "none", chunk |-> 0]],
               call |-> [state |-> "none", urls |-> <<>>, concurrent |-> 0, i |-> 0,
                         promises |-> <<>>, results |-> <<>>] ]
    /\ pc = "idle"
    /\ args = NoArgs
    /\ loc = NoLocals
    /\ console = <<>>
    /\ calls = <<>>
    /\ tr = Fulfilled(<<>>)
    /\ result = NoResult
    /\ scene = SceneIdle
    /\ blog = BlogIdle

NextPreload ==
    \/ /\ pre.call.state = "none"
       /\ \E urls \in UrlLists, concurrent \in ConcurrentOptions : PreloadAssets(urls, concurrent)
    \/ ChunkResumes
    \/ \E u \in Urls : PreloadAsset(u)
    \/ \E u \in Urls : LoaderResolves(u)
    \/ \E u \in Urls : LoaderRejects(u)

SpecPreload == InitPreload /\ [][NextPreload]_vars

\* the loads the preloadAssets call started that have not settled
InFlight ==
    {u \in Urls : pre.loadedAssets[u] = "loading" /\ pre.started[u].by = "preloadAssets"}

(* C10: at most `concurrent` (3 by default) loads started by the preloadAssets call
   are in flight; every load it started that is in flight was started for the chunk
   it is awaiting (no load of a later chunk starts before those of the chunk have
   settled); the call never rejects, and returns one result per url with none of its
   loads left in flight. *)
C10_BoundedBatches ==
    pre.call.state # "none"
    => /\ Cardinality(InFlight) <= pre.call.concurrent
       /\ \A u \in InFlight :
            /\ pre.call.state = "awaiting"
            /\ pre.started[u].chunk = pre.call.i \div pre.call.concurrent
            /\ \E k \in 1..Len(pre.call.promises) :
                  pre.call.promises[k].url = u /\ pre.call.promises[k].state = "pending"
       /\ pre.call.state # "rejected"
       /\ pre.call.state = "returned" => Len(pre.call.results) = Len(pre.call.urls)

C10_Witness ==
    /\ pre.call.state = "awaiting"
    /\ pre.call.concurrent = DefaultConcurrent
    /\ pre.call.i = DefaultConcurrent
    /\ Cardinality(InFlight) = 1
    /\ \E k \in 1..Len(pre.call.results) : pre.call.results[k].status = "error"

(* C11 as stated: the list preloadAssets returns has one entry per input url, in input
   order; an entry has status 'error' exactly when the load of its url failed, and
   status 'success', with the loaded url as result, exactly when the load completed
   successfully, also for urls that occur more than once in the list or that an
   earlier call already requested. *)
C11_ResultsMatchLoads ==
    pre.call.state = "returned"
    => /\ Len(pre.call.results) = Len(pre.call.urls)
       /\ \A k \in 1..Len(pre.call.results) :
            LET r == pre.call.results[k]
                u == pre.call.urls[k]
            IN  /\ r.url = urlText(u)
                /\ r.status = "error" <=> pre.loadedAssets[u] = "error"
                /\ r.status = "success" <=> pre.loadedAssets[u] = "loaded"
                /\ r.status = "success" => r.result = Str(urlText(u))

-----------------------------------------------------------------------------
(* The posts cache of the blog utilities: load and fetchPosts.             *)
(* blog.collection is what getCollection('post') yields: entries with an   *)
(* id, a publishDate (a time value) and data.draft ("undefined", "true" or *)
(* "false").  blog.loads is every call of load(), in order, by its state:  *)
(* "getCollection" (awaiting getCollection), "normalizing" (awaiting       *)
(* Promise.all of the normalized posts), "fulfilled" or "rejected".  Each  *)
(* load builds a new array; an array is given by the load that built it    *)
(* (id) and its elements (a).  blog.callers[c] is a call of fetchPosts:    *)
(* where it is, the load it awaits and the array it returned.  blog.posts  *)
(* is the module variable _posts.                                          *)
(* The continuation of `await load()` runs with the settlement of the load.*)

\* the callers of fetchPosts and the posts of the collection a run is followed for
MaxCallers == 3
MaxPosts == 2

Callers == 1..MaxCallers

CollectionEntries ==
    { [id |-> "a.md", publishDate |-> 3, draft |-> "undefined"],
      [id |-> "b.md", publishDate |-> 5, draft |-> "false"],
      [id |-> "c.md", publishDate |-> 4, draft |-> "true"],
      [id |-> "d.md", publishDate |-> 5, draft |-> "undefined"] }

Collections ==
    {l \in UNION {[1..n -> CollectionEntries] : n \in 0..MaxPosts} :
        \A i, j \in 1..Len(l) : l[i] = l[j] => i = j}

\* getNormalizedPost: the fields load looks at; draft: data.draft ?? false
getNormalizedPost(post) ==
    [id |-> post.id, publishDate |-> post.publishDate, draft |-> (post.draft = "true")]

RECURSIVE InsertByDateDesc(_, _)
InsertByDateDesc(x, s) ==
    IF s = <<>> THEN <<x>>
    ELSE IF Head(s).publishDate >= x.publishDate THEN <<Head(s)>> \o InsertByDateDesc(x, Tail(s))
    ELSE <<x>> \o s

RECURSIVE SortByDateDesc(_)
\* .sort((a, b) => b.publishDate.valueOf() - a.publishDate.valueOf()) (stable)
SortByDateDesc(a) ==
    IF a = <<>> THEN <<>> ELSE InsertByDateDesc(a[Len(a)], SortByDateDesc(SubSeq(a, 1, Len(a) - 1)))

RECURSIVE FilterNotDraft(_)
\* .filter((post) => !post.draft)
FilterNotDraft(a) ==
    IF a = <<>> THEN <<>>
    ELSE (IF ~Head(a).draft THEN <<Head(a)>> ELSE <<>>) \o FilterNotDraft(Tail(a))

\* the elements of the array load() resolves with
load(posts) ==
    FilterNotDraft(SortByDateDesc([i \in 1..Len(posts) |-> getNormalizedPost(posts[i])]))

\* the array the load with index l built
PostsArray(l, a) == [t |-> "array", id |-> l, a |-> a]

\* the call of fetchPosts that awaits load l
AwaitingLoad(c, l) == blog.callers[c].pc = "awaitLoad" /\ blog.callers[c].load = l

\* fetchPosts(), up to `await load()` (load() runs up to `await getCollection('post')`)
\* or, when _posts is set, to its return
FetchPosts(c) ==
    /\ blog.callers[c].pc = "idle"
    /\ blog' = IF ~Truthy(blog.posts)
               THEN [blog EXCEPT !.loads = Append(@, "getCollection"),
                                 !.callers[c] = [pc |-> "awaitLoad", load |-> Len(blog.loads) + 1,
                                                 value |-> Undefined]]
               ELSE [blog EXCEPT !.callers[c] = [pc |-> "returned", load |-> 0,
                                                 value |-> blog.posts]]
    /\ UNCHANGED <<imgVars, scene, pre>>

\* getCollection('post') of load l resolves: posts.map(...) and `await Promise.all(...)`
GetCollectionResolves(l) ==
    /\ blog.loads[l] = "getCollection"
    /\ blog' = [blog EXCEPT !.loads[l] = "normalizing"]
    /\ UNCHANGED <<imgVars, scene, pre>>

\* the normalized posts of load l have resolved: sort, filter, return results; then
\* fetchPosts continues: _posts = <the array>; return _posts
LoadResolves(l) ==
    /\ blog.loads[l] = "normalizing"
    /\ LET results == PostsArray(l, load(blog.collection))
       IN  blog' = [blog EXCEPT
                        !.loads[l] = "fulfilled",
                        !.posts = results,
                        !.callers = [c \in Callers |->
                                        IF AwaitingLoad(c, l)
                                        THEN [pc |-> "returned", load |-> l, value |-> results]
                                        ELSE @[c]]]
    /\ UNCHANGED <<imgVars, scene, pre>>

\* getCollection or the rendering of a post of load l rejects: load() rejects, and so
\* does the fetchPosts call awaiting it; _posts is not assigned
LoadRejects(l) ==
    /\ blog.loads[l] \in {"getCollection", "normalizing"}
    /\ blog' = [blog EXCEPT
                    !.loads[l] = "rejected",
                    !.callers = [c \in Callers |->
                                    IF AwaitingLoad(c, l)
                                    THEN [pc |-> "rejected", load |-> l, value |-> Undefined]
                                    ELSE @[c]]]
    /\ UNCHANGED <<imgVars, scene, pre>>

InitBlog ==
    /\ \E collection \in Collections :
          blog = [ collection |-> collection,
                   posts |-> Undefined,
                   loads |-> <<>>,
                   callers |-> [c \in Callers |-> [pc |-> "idle", load |-> 0, value |-> Undefined]] ]
    /\ pc = "idle"
    /\ args = NoArgs
    /\ loc = NoLocals
    /\ console = <<>>
    /\ calls = <<>>
    /\ tr = Fulfilled(<<>>)
    /\ result = NoResult
    /\ scene = SceneIdle
    /\ pre = PreIdle

NextBlog ==
    \/ \E c \in Callers : FetchPosts(c)
    \/ \E l \in 1..Len(blog.loads) : GetCollectionResolves(l)
    \/ \E l \in 1..Len(blog.loads) : LoadResolves(l)
    \/ \E l \in 1..Len(blog.loads) : LoadRejects(l)

SpecBlog == InitBlog /\ [][NextBlog]_vars

(* C13 as stated: the post list is loaded and cached once: whatever the interleaving
   of the fetchPosts callers, also of callers that start while the first load is still
   awaiting, load() is executed at most once (a load that failed apart), and every
   caller receives the same array, the cached _posts. *)
C13_LoadedOnce ==
    /\ Cardinality({l \in 1..Len(blog.loads) : blog.loads[l] # "rejected"}) <= 1
    /\ \A c, d \in Callers :
          (blog.callers[c].pc = "returned" /\ blog.callers[d].pc = "returned")
          => blog.callers[c].value = blog.callers[d].value
    /\ \A c \in Callers :
          blog.callers[c].pc = "returned" => blog.callers[c].value = blog.posts

====
